---- MODULE Spec2Model ----
(***************************************************************************)
(* The data model layer of the PDF statement extraction application        *)
(* (app/models.py): four persisted tables linked by foreign keys, and the  *)
(* transfer schemas that validate create / update / export / filter        *)
(* requests.  A table is a function from primary key to row.  A schema is  *)
(* an operator that says which inputs validate; a write is an action that  *)
(* stores a row only when the schema and the declared constraints accept   *)
(* it.                                                                     *)
(***************************************************************************)
EXTENDS Integers, Sequences, FiniteSets, TLC

VARIABLES uploaded_files, extraction_jobs, transactions, export_records,
          selection, request, result

vars ==
  <<uploaded_files, extraction_jobs, transactions, export_records, selection,
    request, result>>

(***************************************************************************)
(* Bounds of the model.                                                    *)
(***************************************************************************)
MaxFiles == 1
MaxJobs == 1
MaxTransactions == 1
MaxExports == 1
\* FilterSpec
MaxFilterJobs == 2
MaxFilterTransactions == 2

(***************************************************************************)
(* Python values.                                                          *)
(***************************************************************************)
\* Optional[T]: None, or Some(v) for a value v of T
None == <<>>
Some(v) == <<v>>
\* The keyword arguments of a call are a function from the names passed to
\* their values: a field that is not passed takes its default.
Get(kw, f, default) == IF f \in DOMAIN kw THEN kw[f] ELSE default
\* a str is the sequence of its characters
Rep(c, n) == [i \in 1..n |-> c]

\* a fifth member
JobStatusWithCancelled ==
  {"pending", "processing", "completed", "failed", "cancelled"}

JobStatus == {"pending", "processing", "completed", "failed"}

FileFormat == {"excel", "csv"}

(***************************************************************************)
(* decimal.Decimal, as Decimal.as_tuple() gives it: a sign, the digits of  *)
(* the coefficient and an exponent.  Decimal("12345678.90") is             *)
(* Dec(0, <<1,2,3,4,5,6,7,8,9,0>>, -2).                                    *)
(***************************************************************************)
Dec(s, ds, e) == [sign |-> s, digits |-> ds, exp |-> e]

Max(a, b) == IF a >= b THEN a ELSE b

Min(a, b) == IF a <= b THEN a ELSE b

RECURSIVE Pow10(_)
Pow10(n) == IF n <= 0 THEN 1 ELSE 10 * Pow10(n - 1)

\* the coefficient as an integer
RECURSIVE DigitsValue(_)
DigitsValue(ds) ==
  IF ds = <<>> THEN 0
  ELSE 10 * DigitsValue(SubSeq(ds, 1, Len(ds) - 1)) + ds[Len(ds)]

IsZero(d) == \A i \in 1..Len(d.digits) : d.digits[i] = 0

\* Decimal.normalize(): trailing zeros of the coefficient move into the
\* exponent; a zero becomes Decimal("0") with its sign.
RECURSIVE StripZeros(_)
StripZeros(d) ==
  IF Len(d.digits) > 1 /\ d.digits[Len(d.digits)] = 0
  THEN StripZeros(Dec(d.sign, SubSeq(d.digits, 1, Len(d.digits) - 1), d.exp + 1))
  ELSE d

Normalize(d) == IF IsZero(d) THEN Dec(d.sign, <<0>>, 0) ELSE StripZeros(d)

\* The value scaled to the exponent e (e no larger than d.exp): an integer.
Scaled(d, e) ==
  (IF d.sign = 1 THEN -1 ELSE 1) * DigitsValue(d.digits) * Pow10(d.exp - e)

\* a <= b on Decimals: compared as numbers, whatever their exponents
DecimalLe(a, b) ==
  LET e == Min(a.exp, b.exp) IN Scaled(a, e) <= Scaled(b, e)

\* The digit counts the Decimal constraints of a field are checked against:
\* a non-negative exponent adds that many zeros and leaves no decimals; a
\* negative one gives -exp decimals, and at least that many digits.
DecimalDigitsInfo(d) ==
  IF d.exp >= 0
  THEN [decimals |-> 0, digits |-> Len(d.digits) + d.exp]
  ELSE [decimals |-> -d.exp, digits |-> Max(Len(d.digits), -d.exp)]

(***************************************************************************)
(* Field constraints.                                                      *)
(***************************************************************************)
DescriptionMaxLength == 500
RawTextMaxLength == 1000
AmountMaxDigits == 10
AmountDecimalPlaces == 2
FilenameMaxLength == 255
FilePathMaxLength == 500
ContentTypeMaxLength == 100

\* a limit that excludes the limit itself
MaxLengthExclusive(v, n) == Len(v) < n

\* Field(max_length=n) on a str
MaxLengthOK(v, n) == Len(v) <= n

\* max_digits without decimal_places
AmountDigitsOnly(d) ==
  ~(DecimalDigitsInfo(d).digits > AmountMaxDigits
      /\ DecimalDigitsInfo(Normalize(d)).digits > AmountMaxDigits)

\* Field(max_digits=10, decimal_places=2) on a Decimal: a count is over the
\* limit when it is over it both as written and normalized; the digits left
\* of the point (digits - decimals) may be at most max_digits -
\* decimal_places, counted the same way, so that a zero written with a
\* large exponent (0E+8, normalized 0) passes.
AmountOK(d) ==
  LET raw == DecimalDigitsInfo(d)
      norm == DecimalDigitsInfo(Normalize(d))
  IN /\ ~(raw.digits > AmountMaxDigits /\ norm.digits > AmountMaxDigits)
     /\ ~(raw.decimals > AmountDecimalPlaces /\ norm.decimals > AmountDecimalPlaces)
     /\ ~(/\ raw.digits - raw.decimals > AmountMaxDigits - AmountDecimalPlaces
           /\ norm.digits - norm.decimals > AmountMaxDigits - AmountDecimalPlaces)

(***************************************************************************)
(* Transfer schemas: the fields that fail validation (none: the input is   *)
(* valid), and the validated object.                                       *)
(***************************************************************************)
Missing(kw, required) == {f \in required : f \notin DOMAIN kw}

ExtractionJobCreateErrors(kw) == Missing(kw, {"uploaded_file_id"})

ExtractionJobCreate(kw) == [uploaded_file_id |-> kw.uploaded_file_id]

TransactionCreateErrors(kw) ==
  Missing(kw, {"extraction_job_id", "transaction_date", "description", "amount"})
    \cup {f \in {"description"} \cap DOMAIN kw :
            ~MaxLengthOK(kw[f], DescriptionMaxLength)}
    \cup {f \in {"amount"} \cap DOMAIN kw : ~AmountOK(kw[f])}
    \cup {f \in {"raw_text"} \cap DOMAIN kw :
            kw[f] # None /\ ~MaxLengthOK(kw[f][1], RawTextMaxLength)}

TransactionCreate(kw) ==
  [extraction_job_id |-> kw.extraction_job_id,
   transaction_date |-> kw.transaction_date,
   billing_date |-> Get(kw, "billing_date", None),
   description |-> kw.description,
   amount |-> kw.amount,
   raw_text |-> Get(kw, "raw_text", None),
   page_number |-> Get(kw, "page_number", None),
   line_number |-> Get(kw, "line_number", None)]

ExportRequestErrors(kw) ==
  Missing(kw, {"extraction_job_id"})
    \cup {f \in {"format"} \cap DOMAIN kw : kw[f] \notin FileFormat}

ExportRequest(kw) ==
  [extraction_job_id |-> kw.extraction_job_id,
   format |-> Get(kw, "format", "excel"),
   include_metadata |-> Get(kw, "include_metadata", FALSE)]

(***************************************************************************)
(* Persistent models: the row a constructor builds.                        *)
(***************************************************************************)
UploadedFile(kw, now) ==
  [filename |-> kw.filename,
   file_path |-> kw.file_path,
   file_size |-> kw.file_size,
   content_type |-> kw.content_type,
   upload_date |-> now]

\* error_message defaulting to the empty string instead of None
ExtractionJobEmptyMessage(create) ==
  [uploaded_file_id |-> create.uploaded_file_id,
   status |-> "pending",
   started_at |-> None,
   completed_at |-> None,
   error_message |-> Some(<<>>),
   total_transactions_found |-> 0,
   extraction_metadata |-> <<>>]

\* started_at stamped on construction, as created_at and upload_date are
ExtractionJobStartedNow(create) ==
  [uploaded_file_id |-> create.uploaded_file_id,
   status |-> "pending",
   started_at |-> Some("t1"),
   completed_at |-> None,
   error_message |-> None,
   total_transactions_found |-> 0,
   extraction_metadata |-> <<>>]

ExtractionJob(create) ==
  [uploaded_file_id |-> create.uploaded_file_id,
   status |-> "pending",
   started_at |-> None,
   completed_at |-> None,
   error_message |-> None,
   total_transactions_found |-> 0,
   extraction_metadata |-> <<>>]

Transaction(create, now) ==
  [extraction_job_id |-> create.extraction_job_id,
   transaction_date |-> create.transaction_date,
   billing_date |-> create.billing_date,
   description |-> create.description,
   amount |-> create.amount,
   raw_text |-> create.raw_text,
   page_number |-> create.page_number,
   line_number |-> create.line_number,
   created_at |-> now]

ExportRecord(req, filename, file_path, now) ==
  [extraction_job_id |-> req.extraction_job_id,
   format |-> req.format,
   filename |-> filename,
   file_path |-> file_path,
   created_at |-> now,
   download_count |-> 0]

(***************************************************************************)
(* The store.  A primary key left None is assigned on insert: the next     *)
(* integer (no row is ever deleted here).  The schema module declares the  *)
(* tables and holds no insert; the creates below follow the design's       *)
(* Persistent Entity Store and Error Handling sections: a row that breaks  *)
(* a declared constraint (a str over its max_length, a foreign key that    *)
(* names no row) fails the write with a validation error naming the field  *)
(* and is not stored.                                                      *)
(***************************************************************************)
NextId(table) == Cardinality(DOMAIN table) + 1

Insert(table, row) ==
  [id \in DOMAIN table \cup {NextId(table)} |->
     IF id \in DOMAIN table THEN table[id] ELSE row]

\* The columns of uploaded_files that refuse the row: the str columns are
\* declared with max_length.
UploadedFileErrors(row) ==
  {f \in {"filename"} : ~MaxLengthOK(row.filename, FilenameMaxLength)}
    \cup {f \in {"file_path"} : ~MaxLengthOK(row.file_path, FilePathMaxLength)}
    \cup {f \in {"content_type"} :
            ~MaxLengthOK(row.content_type, ContentTypeMaxLength)}

\* The fields of an export_records row that break their declaration: the
\* format outside FileFormat, the str fields over their max_length.
ExportRecordErrors(row) ==
  {f \in {"format"} : row.format \notin FileFormat}
    \cup {f \in {"filename"} : ~MaxLengthOK(row.filename, FilenameMaxLength)}
    \cup {f \in {"file_path"} : ~MaxLengthOK(row.file_path, FilePathMaxLength)}

\* the column without its foreign key
JobForeignKeyUnchecked(job) == TRUE

\* foreign_key="uploaded_files.id"
JobForeignKeyOK(job) == job.uploaded_file_id \in DOMAIN uploaded_files

\* foreign_key="extraction_jobs.id" of transactions
TransactionForeignKeyOK(txn) == txn.extraction_job_id \in DOMAIN extraction_jobs

\* foreign_key="extraction_jobs.id" of export_records
ExportForeignKeyOK(export) == export.extraction_job_id \in DOMAIN extraction_jobs

Ok(op) == [op |-> op, status |-> "ok", fields |-> {}]

ValidationError(op, fields) ==
  [op |-> op, status |-> "validation_error", fields |-> fields]


CreateUploadedFile(kw, now) ==
  /\ request' = kw
  /\ IF UploadedFileErrors(UploadedFile(kw, now)) # {}
     THEN /\ result' = ValidationError("create_file",
                                       UploadedFileErrors(UploadedFile(kw, now)))
          /\ UNCHANGED uploaded_files
     ELSE /\ uploaded_files' = Insert(uploaded_files, UploadedFile(kw, now))
          /\ result' = Ok("create_file")
  /\ UNCHANGED <<extraction_jobs, transactions, export_records, selection>>

CreateExtractionJob(kw) ==
  /\ request' = kw
  /\ IF ExtractionJobCreateErrors(kw) # {}
     THEN /\ result' = ValidationError("create_job", ExtractionJobCreateErrors(kw))
          /\ UNCHANGED extraction_jobs
     ELSE IF ~JobForeignKeyOK(ExtractionJob(ExtractionJobCreate(kw)))
     THEN /\ result' = ValidationError("create_job", {"uploaded_file_id"})
          /\ UNCHANGED extraction_jobs
     ELSE /\ extraction_jobs' =
               Insert(extraction_jobs, ExtractionJob(ExtractionJobCreate(kw)))
          /\ result' = Ok("create_job")
  /\ UNCHANGED <<uploaded_files, transactions, export_records, selection>>

CreateTransaction(kw, now) ==
  /\ request' = kw
  /\ IF TransactionCreateErrors(kw) # {}
     THEN /\ result' = ValidationError("create_transaction", TransactionCreateErrors(kw))
          /\ UNCHANGED transactions
     ELSE IF ~TransactionForeignKeyOK(Transaction(TransactionCreate(kw), now))
     THEN /\ result' = ValidationError("create_transaction", {"extraction_job_id"})
          /\ UNCHANGED transactions
     ELSE /\ transactions' =
               Insert(transactions, Transaction(TransactionCreate(kw), now))
          /\ result' = Ok("create_transaction")
  /\ UNCHANGED <<uploaded_files, extraction_jobs, export_records, selection>>

CreateExportRecord(kw, file, now) ==
  /\ request' = kw
  /\ IF ExportRequestErrors(kw) # {}
     THEN /\ result' = ValidationError("create_export", ExportRequestErrors(kw))
          /\ UNCHANGED export_records
     ELSE IF ExportRecordErrors(ExportRecord(ExportRequest(kw), file, file, now)) # {}
     THEN /\ result' = ValidationError("create_export",
               ExportRecordErrors(ExportRecord(ExportRequest(kw), file, file, now)))
          /\ UNCHANGED export_records
     ELSE IF ~ExportForeignKeyOK(ExportRecord(ExportRequest(kw), file, file, now))
     THEN /\ result' = ValidationError("create_export", {"extraction_job_id"})
          /\ UNCHANGED export_records
     ELSE /\ export_records' =
               Insert(export_records,
                      ExportRecord(ExportRequest(kw), file, file, now))
          /\ result' = Ok("create_export")
  /\ UNCHANGED <<uploaded_files, extraction_jobs, transactions, selection>>

(***************************************************************************)
(* Writes to a field of a row.  The table models declare plain fields and  *)
(* no validator: an assignment stores the value in that field, whatever    *)
(* the value, and touches no other field.                                  *)
(***************************************************************************)
\* a status write that is refused unless it follows the lifecycle
WriteJobAlongLifecycle(j, f, v) ==
  /\ request' = [id |-> j, field |-> f, value |-> v]
  /\ j \in DOMAIN extraction_jobs
  /\ IF f = "status"
          => <<extraction_jobs[j].status, v>>
               \in {<<"pending", "processing">>, <<"processing", "completed">>,
                    <<"processing", "failed">>}
     THEN /\ extraction_jobs' = [extraction_jobs EXCEPT ![j][f] = v]
          /\ result' = [op |-> "write_job", status |-> "ok", fields |-> {f}]
     ELSE /\ result' = ValidationError("write_job", {f})
          /\ UNCHANGED extraction_jobs
  /\ UNCHANGED <<uploaded_files, transactions, export_records, selection>>

\* a write that refuses a negative count
WriteJobNonNegative(j, f, v) ==
  /\ request' = [id |-> j, field |-> f, value |-> v]
  /\ j \in DOMAIN extraction_jobs
  /\ IF f = "total_transactions_found" => v >= 0
     THEN /\ extraction_jobs' = [extraction_jobs EXCEPT ![j][f] = v]
          /\ result' = [op |-> "write_job", status |-> "ok", fields |-> {f}]
     ELSE /\ result' = ValidationError("write_job", {f})
          /\ UNCHANGED extraction_jobs
  /\ UNCHANGED <<uploaded_files, transactions, export_records, selection>>

WriteJob(j, f, v) ==
  /\ request' = [id |-> j, field |-> f, value |-> v]
  /\ j \in DOMAIN extraction_jobs
  /\ extraction_jobs' = [extraction_jobs EXCEPT ![j][f] = v]
  /\ result' = [op |-> "write_job", status |-> "ok", fields |-> {f}]
  /\ UNCHANGED <<uploaded_files, transactions, export_records, selection>>

WriteDownloadCount(e, n) ==
  /\ request' = [id |-> e, field |-> "download_count", value |-> n]
  /\ e \in DOMAIN export_records
  /\ export_records' = [export_records EXCEPT ![e].download_count = n]
  /\ result' = [op |-> "write_export", status |-> "ok", fields |-> {"download_count"}]
  /\ UNCHANGED <<uploaded_files, extraction_jobs, transactions, selection>>

(***************************************************************************)
(* TransactionUpdate: every field is optional and defaults to None.  The   *)
(* update is applied to a stored transaction field by field: a field the   *)
(* caller passed replaces the stored one, a field not passed is left.      *)
(***************************************************************************)
\* the schema without its amount
TransactionUpdateFieldsNoAmount == {"transaction_date", "billing_date", "description"}

TransactionUpdateFields == {"transaction_date", "billing_date", "description", "amount"}

TransactionUpdateErrors(kw) ==
  {f \in {"description"} \cap DOMAIN kw :
      kw[f] # None /\ ~MaxLengthOK(kw[f][1], DescriptionMaxLength)}
    \cup {f \in {"amount"} \cap DOMAIN kw : kw[f] # None /\ ~AmountOK(kw[f][1])}

TransactionUpdate(kw) == [f \in TransactionUpdateFields |-> Get(kw, f, None)]

\* billing_date is the one nullable column of the four
ApplyTransactionUpdate(txn, update) ==
  [f \in DOMAIN txn |->
     IF f \in TransactionUpdateFields /\ update[f] # None
     THEN IF f = "billing_date" THEN update[f] ELSE update[f][1]
     ELSE txn[f]]

UpdateTransaction(t, kw) ==
  /\ request' = [id |-> t, update |-> kw]
  /\ t \in DOMAIN transactions
  /\ IF TransactionUpdateErrors(kw) # {}
     THEN /\ result' = ValidationError("update_transaction", TransactionUpdateErrors(kw))
          /\ UNCHANGED transactions
     ELSE /\ transactions' =
               [transactions EXCEPT
                  ![t] = ApplyTransactionUpdate(transactions[t], TransactionUpdate(kw))]
          /\ result' = Ok("update_transaction")
  /\ UNCHANGED <<uploaded_files, extraction_jobs, export_records, selection>>

(***************************************************************************)
(* TransactionFilter: the job whose transactions are filtered is required, *)
(* every predicate is optional and defaults to None.                       *)
(***************************************************************************)
TransactionFilterErrors(kw) == Missing(kw, {"extraction_job_id"})

\* min_amount defaulting to Decimal("0") instead of None
TransactionFilterMinZero(kw) ==
  [extraction_job_id |-> kw.extraction_job_id,
   start_date |-> Get(kw, "start_date", None),
   end_date |-> Get(kw, "end_date", None),
   min_amount |-> Get(kw, "min_amount", Some(Dec(0, <<0>>, 0))),
   max_amount |-> Get(kw, "max_amount", None),
   description_contains |-> Get(kw, "description_contains", None),
   page_number |-> Get(kw, "page_number", None)]

TransactionFilter(kw) ==
  [extraction_job_id |-> kw.extraction_job_id,
   start_date |-> Get(kw, "start_date", None),
   end_date |-> Get(kw, "end_date", None),
   min_amount |-> Get(kw, "min_amount", None),
   max_amount |-> Get(kw, "max_amount", None),
   description_contains |-> Get(kw, "description_contains", None),
   page_number |-> Get(kw, "page_number", None)]

\* needle in haystack
Contains(haystack, needle) ==
  \E i \in 0..(Len(haystack) - Len(needle)) :
     SubSeq(haystack, i + 1, i + Len(needle)) = needle

FilterMatches(f, txn) ==
  /\ txn.extraction_job_id = f.extraction_job_id
  /\ f.start_date = None \/ f.start_date[1] <= txn.transaction_date
  /\ f.end_date = None \/ txn.transaction_date <= f.end_date[1]
  /\ f.min_amount = None \/ DecimalLe(f.min_amount[1], txn.amount)
  /\ f.max_amount = None \/ DecimalLe(txn.amount, f.max_amount[1])
  /\ f.description_contains = None
       \/ Contains(txn.description, f.description_contains[1])
  /\ f.page_number = None \/ txn.page_number = f.page_number

FilterTransactions(kw) ==
  /\ request' = kw
  /\ IF TransactionFilterErrors(kw) # {}
     THEN /\ result' = ValidationError("filter_transactions", TransactionFilterErrors(kw))
          /\ selection' = {}
     ELSE /\ selection' =
               {t \in DOMAIN transactions :
                  FilterMatches(TransactionFilter(kw), transactions[t])}
          /\ result' = Ok("filter_transactions")
  /\ UNCHANGED <<uploaded_files, extraction_jobs, transactions, export_records>>

(***************************************************************************)
(* Inputs.                                                                 *)
(***************************************************************************)
StoredFileInputs ==
  {[filename |-> <<"a">>, file_path |-> <<"x", "a">>, file_size |-> 1024,
    content_type |-> <<"c">>]}

\* a file the table stores, and one whose filename is too long for it
FileInputs ==
  StoredFileInputs
    \cup {[filename |-> Rep("a", 256), file_path |-> <<"x", "a">>,
           file_size |-> 1024, content_type |-> <<"c">>]}

ExportFiles == {<<"x">>, Rep("x", 256)}

\* no argument at all, an uploaded file that may exist, one that cannot
JobCreateInputs == {<<>>} \cup {[uploaded_file_id |-> i] : i \in 1..(MaxFiles + 1)}

StatusInputs == JobStatus \cup {"cancelled"}

ExportInputs ==
  {[extraction_job_id |-> j] : j \in 1..(MaxJobs + 1)}
    \cup {[extraction_job_id |-> j, format |-> f] :
            j \in 1..(MaxJobs + 1), f \in FileFormat \cup {"pdf"}}
    \cup {[format |-> "csv"]}

Amount9999 == Dec(0, <<9, 9, 9, 9>>, -2)

BaseTransaction ==
  [extraction_job_id |-> 1, transaction_date |-> 20240110,
   description |-> <<"a", "b">>, amount |-> Amount9999]

StoreTransactionInputs ==
  {[BaseTransaction EXCEPT !.extraction_job_id = j] : j \in 1..(MaxJobs + 1)}

Init ==
  /\ uploaded_files = <<>>
  /\ extraction_jobs = <<>>
  /\ transactions = <<>>
  /\ export_records = <<>>
  /\ selection = {}
  /\ request = <<>>
  /\ result = Ok("init")

(***************************************************************************)
(* Spec: the store under creates of the four entities and writes of a      *)
(* job's status.                                                           *)
(***************************************************************************)
Next ==
  \/ \E kw \in FileInputs :
       /\ Cardinality(DOMAIN uploaded_files) < MaxFiles
       /\ CreateUploadedFile(kw, "t1")
  \/ \E kw \in JobCreateInputs :
       /\ Cardinality(DOMAIN extraction_jobs) < MaxJobs
       /\ CreateExtractionJob(kw)
  \/ \E kw \in StoreTransactionInputs :
       /\ Cardinality(DOMAIN transactions) < MaxTransactions
       /\ CreateTransaction(kw, "t1")
  \/ \E kw \in ExportInputs, file \in ExportFiles :
       /\ Cardinality(DOMAIN export_records) < MaxExports
       /\ CreateExportRecord(kw, file, "t1")
  \/ \E j \in DOMAIN extraction_jobs, s \in StatusInputs : WriteJob(j, "status", s)

Spec == Init /\ [][Next]_vars

(***************************************************************************)
(* Claims checked under Spec.                                              *)
(***************************************************************************)
NewJobs == DOMAIN extraction_jobs' \ DOMAIN extraction_jobs

NewTransactions == DOMAIN transactions' \ DOMAIN transactions

NewExports == DOMAIN export_records' \ DOMAIN export_records

TablesUnchanged ==
  UNCHANGED <<uploaded_files, extraction_jobs, transactions, export_records>>

Refused == result'.status # "ok" /\ TablesUnchanged

LifecycleSteps ==
  {<<"pending", "processing">>, <<"processing", "completed">>,
   <<"processing", "failed">>}

\* C1 as claimed: a job is created in pending and every change of its status
\* is one of pending -> processing, processing -> completed,
\* processing -> failed, so that completed and failed are never left.
C1_StatusMonotonic ==
  [][/\ \A j \in NewJobs : extraction_jobs'[j].status = "pending"
     /\ \A j \in DOMAIN extraction_jobs :
          extraction_jobs'[j].status # extraction_jobs[j].status
            => <<extraction_jobs[j].status, extraction_jobs'[j].status>>
                 \in LifecycleSteps]_vars

\* C1 amended: a job is created in pending, and afterwards its status
\* changes only by a write to the status field; a write of any of the four
\* values is accepted and stored, whatever the status was.
C1_StatusWrittenOnly ==
  [][/\ \A j \in NewJobs : extraction_jobs'[j].status = "pending"
     /\ \A j \in DOMAIN extraction_jobs :
          extraction_jobs'[j].status # extraction_jobs[j].status
            => /\ result' = [op |-> "write_job", status |-> "ok", fields |-> {"status"}]
               /\ request' = [id |-> j, field |-> "status",
                              value |-> extraction_jobs'[j].status]
     /\ (/\ result'.op = "write_job"
         /\ request'.field = "status"
         /\ request'.value \in {"pending", "processing", "completed", "failed"})
          => /\ result'.status = "ok"
             /\ extraction_jobs'[request'.id].status = request'.value]_vars

\* a write of the status field took a job to completed
C1_Witness ==
  /\ result = [op |-> "write_job", status |-> "ok", fields |-> {"status"}]
  /\ request.field = "status"
  /\ extraction_jobs[request.id].status = "completed"

ReferentialIntegrity ==
  /\ \A j \in DOMAIN extraction_jobs :
       extraction_jobs[j].uploaded_file_id \in DOMAIN uploaded_files
  /\ \A t \in DOMAIN transactions :
       transactions[t].extraction_job_id \in DOMAIN extraction_jobs
  /\ \A e \in DOMAIN export_records :
       export_records[e].extraction_job_id \in DOMAIN extraction_jobs

\* C2: every job names an existing uploaded file, every transaction and
\* export record an existing job; a create whose foreign key names no row
\* is refused and leaves the four tables as they were.
C2_ReferentialIntegrity ==
  /\ []ReferentialIntegrity
  /\ [][/\ (/\ result'.op = "create_job"
            /\ "uploaded_file_id" \in DOMAIN request'
            /\ request'.uploaded_file_id \notin DOMAIN uploaded_files) => Refused
        /\ (/\ result'.op \in {"create_transaction", "create_export"}
            /\ "extraction_job_id" \in DOMAIN request'
            /\ request'.extraction_job_id \notin DOMAIN extraction_jobs) => Refused
        /\ result'.status = "validation_error" => TablesUnchanged]_vars

\* a transaction create refused for its job, in a store that holds a job
\* and an export record of it
C2_Witness ==
  /\ extraction_jobs # <<>>
  /\ export_records # <<>>
  /\ result = ValidationError("create_transaction", {"extraction_job_id"})

\* C3: a job created from an ExtractionJobCreate (uploaded_file_id alone) is
\* pending, has found 0 transactions, and has no error message, start time
\* or completion time, whatever the uploaded file.
C3_JobDefaults ==
  [][\A j \in NewJobs :
       /\ result' = Ok("create_job")
       /\ extraction_jobs'[j].uploaded_file_id = request'.uploaded_file_id
       /\ extraction_jobs'[j].status = "pending"
       /\ extraction_jobs'[j].total_transactions_found = 0
       /\ extraction_jobs'[j].error_message = None
       /\ extraction_jobs'[j].started_at = None
       /\ extraction_jobs'[j].completed_at = None]_vars

C3_Witness ==
  /\ result = Ok("create_job")
  /\ \E j \in DOMAIN extraction_jobs :
       /\ extraction_jobs[j].uploaded_file_id = request.uploaded_file_id
       /\ extraction_jobs[j].status = "pending"

EnumerationsHold ==
  /\ \A j \in DOMAIN extraction_jobs :
       extraction_jobs[j].status \in {"pending", "processing", "completed", "failed"}
  /\ \A e \in DOMAIN export_records :
       export_records[e].format \in {"excel", "csv"}

\* C9 as claimed: every stored status is one of pending, processing,
\* completed, failed and every stored format one of excel, csv; a write of
\* another status and an export request with another format end in a
\* validation error and store nothing.
C9_Enumerations ==
  /\ []EnumerationsHold
  /\ [][/\ (/\ result'.op = "write_job"
            /\ request'.field = "status"
            /\ request'.value \notin {"pending", "processing", "completed", "failed"})
             => result'.status = "validation_error"
        /\ (/\ result'.op = "create_export"
            /\ "format" \in DOMAIN request'
            /\ request'.format \notin {"excel", "csv"})
             => result'.status = "validation_error"
        /\ result'.status = "validation_error" => TablesUnchanged]_vars

(***************************************************************************)
(* JobSpec: jobs under writes of their status, timestamps and error        *)
(* message.                                                                *)
(***************************************************************************)
JobWrites ==
  {<<"status", v>> : v \in StatusInputs}
    \cup {<<f, v>> : f \in {"started_at", "completed_at"}, v \in {None, Some("t1")}}
    \cup {<<"error_message", v>> : v \in {None, Some(<<"x">>)}}

JobNext ==
  \/ \E kw \in FileInputs :
       /\ Cardinality(DOMAIN uploaded_files) < MaxFiles
       /\ CreateUploadedFile(kw, "t1")
  \/ \E kw \in JobCreateInputs :
       /\ Cardinality(DOMAIN extraction_jobs) < MaxJobs
       /\ CreateExtractionJob(kw)
  \/ \E j \in DOMAIN extraction_jobs, w \in JobWrites : WriteJob(j, w[1], w[2])

JobSpec == Init /\ [][JobNext]_vars

IsSet(v) == v # None

\* C10 as claimed: started_at is set exactly when the job has left pending,
\* completed_at is set when it is completed and unset while it is pending or
\* processing, error_message is set when it is failed and None while it is
\* pending or processing.
C10_FieldsAgreeWithStatus ==
  \A j \in DOMAIN extraction_jobs :
    LET job == extraction_jobs[j] IN
      /\ job.status \in {"processing", "completed", "failed"} => IsSet(job.started_at)
      /\ job.status = "pending" => ~IsSet(job.started_at)
      /\ job.status = "completed" => IsSet(job.completed_at)
      /\ job.status \in {"pending", "processing"} => ~IsSet(job.completed_at)
      /\ job.status = "failed" => IsSet(job.error_message)
      /\ job.status \in {"pending", "processing"} => ~IsSet(job.error_message)

\* C10 amended: a new job is pending with started_at, completed_at and
\* error_message unset, and afterwards each of the four fields changes only
\* by a write to that very field: nothing sets one of them along with
\* another.
C10_FieldsWrittenAlone ==
  [][/\ \A j \in NewJobs :
          /\ extraction_jobs'[j].status = "pending"
          /\ ~IsSet(extraction_jobs'[j].started_at)
          /\ ~IsSet(extraction_jobs'[j].completed_at)
          /\ ~IsSet(extraction_jobs'[j].error_message)
     /\ \A j \in DOMAIN extraction_jobs :
          \A f \in {"status", "started_at", "completed_at", "error_message"} :
            extraction_jobs'[j][f] # extraction_jobs[j][f]
              => /\ result' = [op |-> "write_job", status |-> "ok", fields |-> {f}]
                 /\ request'.id = j
                 /\ request'.field = f]_vars

\* a job that is processing and has an error message, and was never given
\* a start time
C10_Witness ==
  \E j \in DOMAIN extraction_jobs :
    /\ extraction_jobs[j].status = "processing"
    /\ ~IsSet(extraction_jobs[j].started_at)
    /\ IsSet(extraction_jobs[j].error_message)

(***************************************************************************)
(* CounterSpec: jobs and export records under writes of their counters.    *)
(***************************************************************************)
CountInputs == -1..2

CounterNext ==
  \/ \E kw \in FileInputs :
       /\ Cardinality(DOMAIN uploaded_files) < MaxFiles
       /\ CreateUploadedFile(kw, "t1")
  \/ \E kw \in JobCreateInputs :
       /\ Cardinality(DOMAIN extraction_jobs) < MaxJobs
       /\ CreateExtractionJob(kw)
  \/ \E kw \in ExportInputs, file \in ExportFiles :
       /\ Cardinality(DOMAIN export_records) < MaxExports
       /\ CreateExportRecord(kw, file, "t1")
  \/ \E j \in DOMAIN extraction_jobs, n \in CountInputs :
       WriteJob(j, "total_transactions_found", n)
  \/ \E e \in DOMAIN export_records, n \in CountInputs : WriteDownloadCount(e, n)

CounterSpec == Init /\ [][CounterNext]_vars

CountersNonNegative ==
  /\ \A j \in DOMAIN extraction_jobs :
       extraction_jobs[j].total_transactions_found >= 0
  /\ \A e \in DOMAIN export_records : export_records[e].download_count >= 0

\* C7 as claimed: both counters are never negative and never decrease, and a
\* write of a negative value is refused.
C7_CountersMonotonic ==
  /\ []CountersNonNegative
  /\ [][/\ \A j \in DOMAIN extraction_jobs :
             extraction_jobs'[j].total_transactions_found
               >= extraction_jobs[j].total_transactions_found
        /\ \A e \in DOMAIN export_records :
             export_records'[e].download_count >= export_records[e].download_count
        /\ (result'.op \in {"write_job", "write_export"} /\ request'.value < 0)
             => Refused]_vars

\* C7 amended: both counters are integers, 0 in a new row, and afterwards
\* change only by a write to that field; a write of any integer, negative or
\* smaller than the stored one, is accepted and stored.
C7_CountersWrittenFreely ==
  [][/\ \A j \in NewJobs : extraction_jobs'[j].total_transactions_found = 0
     /\ \A e \in NewExports : export_records'[e].download_count = 0
     /\ \A j \in DOMAIN extraction_jobs :
          /\ extraction_jobs'[j].total_transactions_found \in Int
          /\ extraction_jobs'[j].total_transactions_found
               # extraction_jobs[j].total_transactions_found
               => result' = [op |-> "write_job", status |-> "ok",
                             fields |-> {"total_transactions_found"}]
     /\ \A e \in DOMAIN export_records :
          /\ export_records'[e].download_count \in Int
          /\ export_records'[e].download_count # export_records[e].download_count
               => result' = [op |-> "write_export", status |-> "ok",
                             fields |-> {"download_count"}]
     /\ (result'.op = "write_job" /\ request'.field = "total_transactions_found")
          => /\ result'.status = "ok"
             /\ extraction_jobs'[request'.id].total_transactions_found = request'.value
     /\ result'.op = "write_export"
          => /\ result'.status = "ok"
             /\ export_records'[request'.id].download_count = request'.value]_vars

\* a negative count stored in both tables
C7_Witness ==
  /\ \E j \in DOMAIN extraction_jobs :
       extraction_jobs[j].total_transactions_found < 0
  /\ \E e \in DOMAIN export_records : export_records[e].download_count < 0

(***************************************************************************)
(* TxnSpec: transactions of a job under creates and updates.               *)
(***************************************************************************)
Descriptions == {<<"a", "b">>, Rep("x", 500), Rep("x", 501)}

Amounts ==
  {Amount9999,                                          \* 99.99
   Dec(0, <<5>>, 0),                                    \* 5
   Dec(1, <<1, 0, 5>>, -1),                             \* -10.5
   Dec(0, <<1, 0, 0, 0>>, -3),                          \* 1.000
   Dec(0, <<1, 2, 3, 4, 5, 6, 7, 8, 9, 0>>, -2),        \* 12345678.90
   Dec(0, <<1, 2, 3, 4, 5, 6, 7, 8, 9, 0, 1>>, -2),     \* 123456789.01
   Dec(0, <<1, 2, 3, 4, 5, 6, 7, 8, 9>>, 0),            \* 123456789
   Dec(0, <<1>>, -3),                                   \* 0.001
   Dec(0, <<1>>, 10),                                   \* 1E+10
   Dec(0, <<0>>, 8)}                                    \* 0E+8

TransactionInputs ==
  {[BaseTransaction EXCEPT !.description = d] : d \in Descriptions}
    \cup {[BaseTransaction EXCEPT !.amount = a] : a \in Amounts}
    \cup {[BaseTransaction EXCEPT !.extraction_job_id = MaxJobs + 1],
          [BaseTransaction EXCEPT !.description = Rep("x", 501),
                                  !.amount = Dec(0, <<1>>, -3)],
          [extraction_job_id |-> 1, transaction_date |-> 20240110,
           amount |-> Amount9999],
          [extraction_job_id |-> 1, transaction_date |-> 20240120,
           billing_date |-> Some(20240131), description |-> <<"a", "b">>,
           amount |-> Amount9999, raw_text |-> Some(<<"a", "b", "x">>),
           page_number |-> Some(1), line_number |-> Some(7)]}

UpdateInputs ==
  {<<>>,
   [amount |-> Some(Amount9999)],
   [amount |-> Some(Dec(0, <<1>>, -3))],
   [amount |-> Some(Dec(0, <<1, 2, 3, 4, 5, 6, 7, 8, 9>>, 0))],
   [description |-> Some(Rep("x", 500))],
   [description |-> Some(Rep("x", 501))],
   [transaction_date |-> Some(20240120), billing_date |-> Some(20240131)],
   [transaction_date |-> Some(20240120), billing_date |-> Some(20240131),
    description |-> Some(Rep("x", 500)), amount |-> Some(Amount9999)],
   [description |-> Some(Rep("x", 500)), amount |-> Some(Dec(0, <<1>>, -3))]}

TxnNext ==
  \/ \E kw \in StoredFileInputs :
       /\ Cardinality(DOMAIN uploaded_files) < MaxFiles
       /\ CreateUploadedFile(kw, "t1")
  \/ \E kw \in JobCreateInputs :
       /\ Cardinality(DOMAIN extraction_jobs) < MaxJobs
       /\ CreateExtractionJob(kw)
  \/ \E kw \in TransactionInputs :
       /\ Cardinality(DOMAIN transactions) < MaxTransactions
       /\ CreateTransaction(kw, "t1")
  \/ \E t \in DOMAIN transactions, kw \in UpdateInputs : UpdateTransaction(t, kw)

TxnSpec == Init /\ [][TxnNext]_vars

(***************************************************************************)
(* Claims checked under TxnSpec.                                           *)
(***************************************************************************)
CreatedTransaction == transactions'[NextId(transactions)]

\* C4: a transaction create whose description is longer than 500 characters
\* fails validation on that field and stores nothing; one of 500 or fewer
\* is not refused for its description, and is stored with the description
\* as given.  No stored description is longer than 500.
C4_DescriptionLength ==
  /\ [](\A t \in DOMAIN transactions : Len(transactions[t].description) <= 500)
  /\ [][(result'.op = "create_transaction" /\ "description" \in DOMAIN request')
          => /\ Len(request'.description) > 500
                  => /\ result' = ValidationError("create_transaction", result'.fields)
                     /\ "description" \in result'.fields
                     /\ TablesUnchanged
             /\ Len(request'.description) <= 500
                  => /\ "description" \notin result'.fields
                     /\ result'.status = "ok"
                          => /\ NewTransactions = {NextId(transactions)}
                             /\ CreatedTransaction.description = request'.description]_vars

\* a description of exactly 500 characters was stored
C4_Witness ==
  /\ result = Ok("create_transaction")
  /\ Len(request.description) = 500
  /\ \E t \in DOMAIN transactions : transactions[t].description = request.description

\* The value a TransactionUpdate gives a column: billing_date may be null,
\* the other three may not.
Given(update, f) == IF f = "billing_date" THEN update[f] ELSE update[f][1]

\* C5: an accepted update of a transaction gives each of transaction_date,
\* billing_date, description and amount that the update names the value
\* named, and leaves every other field of that transaction, every other
\* transaction and the set of ids as they were; a refused update changes
\* nothing.
C5_UpdateFrame ==
  [][result'.op = "update_transaction"
       => /\ DOMAIN transactions' = DOMAIN transactions
          /\ \A t \in DOMAIN transactions \ {request'.id} :
               transactions'[t] = transactions[t]
          /\ result'.status # "ok" => TablesUnchanged
          /\ result'.status = "ok"
               => \A f \in DOMAIN transactions[request'.id] :
                    transactions'[request'.id][f] =
                      IF /\ f \in {"transaction_date", "billing_date",
                                   "description", "amount"}
                         /\ f \in DOMAIN request'.update
                      THEN Given(request'.update, f)
                      ELSE transactions[request'.id][f]]_vars

\* an update carrying the amount 99.99 alone was applied to a transaction
\* whose other fields are not the defaults
C5_Witness ==
  /\ result = Ok("update_transaction")
  /\ request.update = [amount |-> Some(Amount9999)]
  /\ transactions[request.id].amount = Amount9999
  /\ transactions[request.id].billing_date # None
  /\ transactions[request.id].page_number # None
  /\ Len(transactions[request.id].description) = 500

\* decimal places and digits of a Decimal, trailing zeros aside
Places(d) == IF Normalize(d).exp < 0 THEN -Normalize(d).exp ELSE 0

SignificantDigits(d) ==
  IF Normalize(d).exp < 0
  THEN Max(Len(Normalize(d).digits), -Normalize(d).exp)
  ELSE Len(Normalize(d).digits) + Normalize(d).exp

\* digits left of the decimal point, trailing zeros aside: a zero has one,
\* however it is written
WholeDigits(d) ==
  IF Normalize(d).exp < 0
  THEN Max(Len(Normalize(d).digits) + Normalize(d).exp, 0)
  ELSE Len(Normalize(d).digits) + Normalize(d).exp

\* The amount of the create or update a step made, if it carried one.
RequestAmounts ==
  IF result'.op = "create_transaction"
  THEN {request'[f] : f \in {"amount"} \cap DOMAIN request'}
  ELSE IF result'.op = "update_transaction"
  THEN {request'.update[f][1] : f \in {"amount"} \cap DOMAIN request'.update}
  ELSE {}

\* C8 as claimed: every stored amount has at most 10 digits and exactly 2
\* decimal places, and a create or update whose amount has more than 10
\* digits or more than 2 decimal places is refused with a validation error
\* and changes nothing.
C8_ExactlyTwoPlaces ==
  /\ [](\A t \in DOMAIN transactions :
          /\ transactions[t].amount.exp = -2
          /\ Len(transactions[t].amount.digits) <= 10)
  /\ [][\A a \in RequestAmounts :
          (SignificantDigits(a) > 10 \/ Places(a) > 2)
            => /\ result'.status = "validation_error"
               /\ TablesUnchanged]_vars

\* C8 amended: every stored amount has, trailing zeros aside, at most 10
\* digits and at most 2 decimal places, and at most 8 digits left of the
\* point; a create or update whose amount has more is refused with a
\* validation error on amount and changes nothing; one whose amount has
\* fewer than 2 decimal places is not refused for it, and an accepted amount
\* is stored as given.
C8_AmountPrecision ==
  /\ [](\A t \in DOMAIN transactions :
          /\ SignificantDigits(transactions[t].amount) <= 10
          /\ Places(transactions[t].amount) <= 2
          /\ WholeDigits(transactions[t].amount) <= 8)
  /\ [][\A a \in RequestAmounts :
          /\ (SignificantDigits(a) > 10 \/ Places(a) > 2 \/ WholeDigits(a) > 8)
               => /\ result'.status = "validation_error"
                  /\ "amount" \in result'.fields
                  /\ TablesUnchanged
          /\ (SignificantDigits(a) <= 10 /\ Places(a) <= 2 /\ WholeDigits(a) <= 8)
               => "amount" \notin result'.fields
          /\ (result'.status = "ok" /\ result'.op = "create_transaction")
               => CreatedTransaction.amount = a
          /\ (result'.status = "ok" /\ result'.op = "update_transaction")
               => transactions'[request'.id].amount = a]_vars

\* the amount 5, which has no decimal place, is stored as given
C8_Witness ==
  /\ result = Ok("create_transaction")
  /\ request.amount = Dec(0, <<5>>, 0)
  /\ \E t \in DOMAIN transactions : transactions[t].amount = Dec(0, <<5>>, 0)

(***************************************************************************)
(* FilterSpec: the transactions of two jobs under filters.                 *)
(***************************************************************************)
Row(j, d, desc, a, page) ==
  [extraction_job_id |-> j, transaction_date |-> d, description |-> desc,
   amount |-> a, page_number |-> page]

FilterTransactionInputs ==
  {Row(1, 20240110, <<"a", "b">>, Dec(0, <<1, 0, 0, 0>>, -2), None),        \* 10.00
   Row(1, 20240120, <<"c", "a", "b">>, Dec(0, <<5, 0>>, 0), Some(1)),       \* 50
   Row(1, 20240131, <<"b", "a">>, Dec(0, <<5, 0, 0, 1>>, -2), Some(2)),     \* 50.01
   Row(1, 20240110, <<"a", "b", "c">>, Dec(0, <<9, 9, 9>>, -2), Some(1)),   \* 9.99
   Row(1, 20240120, <<"c">>, Dec(1, <<1, 0, 5>>, -1), Some(1)),             \* -10.5
   Row(2, 20240120, <<"a", "b">>, Dec(0, <<2, 5>>, 0), Some(1))}            \* 25

Amount1000 == Dec(0, <<1, 0, 0, 0>>, -2)

Amount5000 == Dec(0, <<5, 0, 0, 0>>, -2)

FilterInputs ==
  {[min_amount |-> Some(Amount1000), max_amount |-> Some(Amount5000)],
   [extraction_job_id |-> 1],
   [extraction_job_id |-> 2],
   [extraction_job_id |-> 1, min_amount |-> Some(Amount1000),
    max_amount |-> Some(Amount5000)],
   [extraction_job_id |-> 1, min_amount |-> Some(Dec(0, <<1>>, 1))],        \* 1E+1
   [extraction_job_id |-> 1, max_amount |-> Some(Dec(0, <<5, 0, 0>>, -1))], \* 50.0
   [extraction_job_id |-> 1, start_date |-> Some(20240120)],
   [extraction_job_id |-> 1, end_date |-> Some(20240120)],
   [extraction_job_id |-> 1, start_date |-> Some(20240110),
    end_date |-> Some(20240120)],
   [extraction_job_id |-> 1, description_contains |-> Some(<<"a", "b">>)],
   [extraction_job_id |-> 1, page_number |-> Some(1)],
   [extraction_job_id |-> 1, start_date |-> Some(20240110),
    end_date |-> Some(20240120), min_amount |-> Some(Amount1000),
    max_amount |-> Some(Amount5000),
    description_contains |-> Some(<<"a", "b">>), page_number |-> Some(1)]}

FilterNext ==
  \/ \E kw \in FileInputs :
       /\ Cardinality(DOMAIN uploaded_files) < MaxFiles
       /\ CreateUploadedFile(kw, "t1")
  \/ \E kw \in JobCreateInputs :
       /\ Cardinality(DOMAIN extraction_jobs) < MaxFilterJobs
       /\ CreateExtractionJob(kw)
  \/ \E kw \in FilterTransactionInputs :
       /\ Cardinality(DOMAIN transactions) < MaxFilterTransactions
       /\ CreateTransaction(kw, "t1")
  \/ \E kw \in FilterInputs : FilterTransactions(kw)

FilterSpec == Init /\ [][FilterNext]_vars

\* an amount in hundredths
Cents(d) == Scaled(d, -2)

Has(kw, f) == f \in DOMAIN kw /\ kw[f] # None

\* the four predicates of a filter, each only if the filter carries it
SatisfiesPredicates(kw, txn) ==
  /\ Has(kw, "start_date") => kw.start_date[1] <= txn.transaction_date
  /\ Has(kw, "end_date") => txn.transaction_date <= kw.end_date[1]
  /\ Has(kw, "min_amount") => Cents(kw.min_amount[1]) <= Cents(txn.amount)
  /\ Has(kw, "max_amount") => Cents(txn.amount) <= Cents(kw.max_amount[1])
  /\ Has(kw, "description_contains")
       => \E i \in 1..Len(txn.description), j \in 1..Len(txn.description) :
            SubSeq(txn.description, i, j) = kw.description_contains[1]
  /\ Has(kw, "page_number") => txn.page_number = kw.page_number

\* C6 as claimed, in the case the claim gives: a filter that carries
\* min_amount and max_amount and nothing else selects exactly the stored
\* transactions whose amount lies between them, whatever their other fields.
C6_FilterWithAmountsOnly ==
  (result.op = "filter_transactions" /\ DOMAIN request = {"min_amount", "max_amount"})
    => selection =
         {t \in DOMAIN transactions : SatisfiesPredicates(request, transactions[t])}

\* C6 amended: a filter must name an extraction_job_id, and one that does
\* not is refused and selects nothing; a filter that does selects exactly
\* the transactions of that job that satisfy its date, amount, description
\* and page predicates.
C6_FilterSelectsOfJob ==
  result.op = "filter_transactions"
    => IF "extraction_job_id" \in DOMAIN request
       THEN /\ result.status = "ok"
            /\ selection =
                 {t \in DOMAIN transactions :
                    /\ transactions[t].extraction_job_id = request.extraction_job_id
                    /\ SatisfiesPredicates(request, transactions[t])}
       ELSE /\ result = ValidationError("filter_transactions", {"extraction_job_id"})
            /\ selection = {}

\* the filter of job 1 with min_amount 10.00 and max_amount 50.00 selected a
\* transaction and left out one of job 1 and one of job 2
C6_Witness ==
  /\ result = Ok("filter_transactions")
  /\ request = [extraction_job_id |-> 1, min_amount |-> Some(Amount1000),
                max_amount |-> Some(Amount5000)]
  /\ selection # {}
  /\ \E t \in DOMAIN transactions \ selection : transactions[t].extraction_job_id = 2

====
